---- MODULE Spec2Model ----
(***************************************************************************)
(* Nibble-granular codec core of postcard: the serialization sinks         *)
(* (ser::NibbleSlice, NibbleHVec, NibbleSize), the deserialization source  *)
(* (de::NibbleSlice) and the Vlu32N variable-length integer codec.         *)
(*                                                                         *)
(* Bytes are naturals 0..255, nibbles 0..15.  Raw-pointer cursors are      *)
(* offsets from the start of the buffer; the memory that follows the       *)
(* buffer is part of the state, so that an access at or past `end` is an   *)
(* access to an unknown neighbouring byte and is recorded in `oob`.        *)
(***************************************************************************)
EXTENDS Integers, Sequences, FiniteSets, TLC

(***************************************************************************)
(* Bounds of the model.                                                    *)
(***************************************************************************)
MaxCap == 2
MaxOps == 5
MaxTake == 2
PastLen == 6
MaxCont == 12

(***************************************************************************)
(* Input alphabets.                                                        *)
(***************************************************************************)
NibVals == {5, 10}
ByteVals == {60, 165}
ExtVals == {<<>>, <<165>>, <<60, 165>>}
FillVals == {0, 255}

(***************************************************************************)
(* u8 arithmetic.                                                          *)
(***************************************************************************)
RECURSIVE BitAnd(_, _)
BitAnd(a, b) ==
    IF a = 0 \/ b = 0 THEN 0
    ELSE (a % 2) * (b % 2) + 2 * BitAnd(a \div 2, b \div 2)

RECURSIVE BitOr(_, _)
BitOr(a, b) ==
    IF a = 0 THEN b
    ELSE IF b = 0 THEN a
    ELSE (IF a % 2 = 1 \/ b % 2 = 1 THEN 1 ELSE 0) + 2 * BitOr(a \div 2, b \div 2)

Shl4(x) == (x * 16) % 256
Shr4(x) == x \div 16

Ok == "Ok"
SerializeBufferFull == "SerializeBufferFull"
DeserializeUnexpectedEnd == "DeserializeUnexpectedEnd"
DeserializeBadVlu32N == "DeserializeBadVlu32N"

(***************************************************************************)
(* ser::NibbleSlice.  mem holds the caller's buffer (offsets 0..end-1) and *)
(* the byte that follows it (offset end); mem[i + 1] is the byte at        *)
(* offset i.                                                               *)
(***************************************************************************)
SerSliceNew(buf, guard) ==
    [kind |-> "slice", mem |-> Append(buf, guard), end |-> Len(buf),
     cursor |-> 0, is_at_byte_boundary |-> TRUE, oob |-> FALSE]

SerSliceTryPushNib(s, nib) ==
    IF s.cursor = s.end
    THEN [st |-> s, res |-> SerializeBufferFull]
    ELSE LET b0 == s.mem[s.cursor + 1] IN
         IF s.is_at_byte_boundary
         THEN LET b == BitOr(BitAnd(b0, 15), Shl4(nib)) IN
              [st |-> [s EXCEPT !.is_at_byte_boundary = FALSE,
                                !.mem[s.cursor + 1] = b],
               res |-> Ok]
         ELSE LET b == BitOr(BitAnd(b0, 240), BitAnd(nib, 15))
                  c == s.cursor + 1 IN
              \* the cursor is advanced before the write
              [st |-> [s EXCEPT !.is_at_byte_boundary = TRUE,
                                !.cursor = c,
                                !.mem[c + 1] = b,
                                !.oob = s.oob \/ (c >= s.end)],
               res |-> Ok]

\* try_push_u8 without the second `cursor == end` test of its misaligned branch
SerSliceTryPushU8NoMidCheck(s, byte) ==
    IF s.cursor = s.end
    THEN [st |-> s, res |-> SerializeBufferFull]
    ELSE IF s.is_at_byte_boundary
         THEN [st |-> [s EXCEPT !.mem[s.cursor + 1] = byte,
                                !.cursor = s.cursor + 1],
               res |-> Ok]
         ELSE LET m1 == [s.mem EXCEPT ![s.cursor + 1] =
                             BitOr(s.mem[s.cursor + 1], Shr4(byte))]
                  c == s.cursor + 1 IN
              [st |-> [s EXCEPT !.mem = [m1 EXCEPT ![c + 1] = Shl4(byte)],
                                !.cursor = c,
                                !.oob = s.oob \/ (c >= s.end)],
               res |-> Ok]

\* try_push_u8 whose misaligned branch leaves the sink at a byte boundary
SerSliceTryPushU8Realigns(s, byte) ==
    IF s.cursor = s.end
    THEN [st |-> s, res |-> SerializeBufferFull]
    ELSE IF s.is_at_byte_boundary
         THEN [st |-> [s EXCEPT !.mem[s.cursor + 1] = byte,
                                !.cursor = s.cursor + 1],
               res |-> Ok]
         ELSE LET m1 == [s.mem EXCEPT ![s.cursor + 1] =
                             BitOr(s.mem[s.cursor + 1], Shr4(byte))]
                  c == s.cursor + 1 IN
              IF c = s.end
              THEN [st |-> [s EXCEPT !.mem = m1, !.cursor = c],
                    res |-> SerializeBufferFull]
              ELSE [st |-> [s EXCEPT !.mem = [m1 EXCEPT ![c + 1] = Shl4(byte)],
                                     !.cursor = c,
                                     !.is_at_byte_boundary = TRUE],
                    res |-> Ok]

SerSliceTryPushU8(s, byte) ==
    IF s.cursor = s.end
    THEN [st |-> s, res |-> SerializeBufferFull]
    ELSE IF s.is_at_byte_boundary
         THEN [st |-> [s EXCEPT !.mem[s.cursor + 1] = byte,
                                !.cursor = s.cursor + 1],
               res |-> Ok]
         ELSE LET m1 == [s.mem EXCEPT ![s.cursor + 1] =
                             BitOr(s.mem[s.cursor + 1], Shr4(byte))]
                  c == s.cursor + 1 IN
              IF c = s.end
              THEN [st |-> [s EXCEPT !.mem = m1, !.cursor = c],
                    res |-> SerializeBufferFull]
              ELSE [st |-> [s EXCEPT !.mem = [m1 EXCEPT ![c + 1] = Shl4(byte)],
                                     !.cursor = c],
                    res |-> Ok]

SerSliceAlign(s) ==
    IF ~s.is_at_byte_boundary
    THEN SerSliceTryPushNib(s, 0)
    ELSE [st |-> s, res |-> Ok]

SerSliceNibblesLeft(s) ==
    LET bytes_remain == s.end - s.cursor IN
    IF s.is_at_byte_boundary THEN bytes_remain * 2 ELSE bytes_remain * 2 - 1

\* copy_nonoverlapping(bytes, cursor, len)
CopyInto(mem, at, bytes) ==
    [i \in 1..Len(mem) |->
        IF i > at /\ i <= at + Len(bytes) THEN bytes[i - at] ELSE mem[i]]

SerSliceTryExtend(s, bytes) ==
    LET a == SerSliceAlign(s) IN
    IF a.res # Ok THEN a
    ELSE IF SerSliceNibblesLeft(a.st) < Len(bytes) * 2
         THEN [st |-> a.st, res |-> SerializeBufferFull]
         ELSE [st |-> [a.st EXCEPT !.mem = CopyInto(a.st.mem, a.st.cursor, bytes),
                                   !.cursor = a.st.cursor + Len(bytes)],
               res |-> Ok]

SerSliceFinalize(s) == SubSeq(s.mem, 1, s.cursor)

(***************************************************************************)
(* ser::NibbleHVec<B>: a heapless::Vec<u8, B> and the boundary flag.       *)
(***************************************************************************)
HVecNew(B) == [kind |-> "hvec", vec |-> <<>>, B |-> B, is_at_byte_boundary |-> TRUE]

\* heapless::Vec::push: Err when the vector is full
VecPush(h, byte) ==
    IF Len(h.vec) >= h.B
    THEN [st |-> h, res |-> SerializeBufferFull]
    ELSE [st |-> [h EXCEPT !.vec = Append(h.vec, byte)], res |-> Ok]

HVecTryPushNib(h, nib) ==
    IF Len(h.vec) > 0
    THEN IF h.is_at_byte_boundary
         THEN LET p == VecPush(h, Shl4(nib)) IN
              IF p.res # Ok THEN p
              ELSE [st |-> [p.st EXCEPT !.is_at_byte_boundary = FALSE], res |-> Ok]
         ELSE [st |-> [h EXCEPT !.vec[Len(h.vec)] = BitOr(h.vec[Len(h.vec)], BitAnd(nib, 15)),
                                !.is_at_byte_boundary = TRUE],
               res |-> Ok]
    ELSE VecPush([h EXCEPT !.is_at_byte_boundary = FALSE], Shl4(nib))

HVecTryPushU8(h, byte) ==
    IF h.is_at_byte_boundary
    THEN VecPush(h, byte)
    ELSE LET p == HVecTryPushNib(h, Shr4(byte)) IN
         IF p.res # Ok THEN p
         ELSE HVecTryPushNib(p.st, BitAnd(byte, 15))

HVecAlign(h) ==
    IF ~h.is_at_byte_boundary
    THEN HVecTryPushNib(h, 0)
    ELSE [st |-> h, res |-> Ok]

\* try_extend that appends without realigning
HVecTryExtendNoAlign(h, bytes) ==
    IF Len(h.vec) + Len(bytes) > h.B
    THEN [st |-> h, res |-> SerializeBufferFull]
    ELSE [st |-> [h EXCEPT !.vec = h.vec \o bytes], res |-> Ok]

\* heapless::Vec::extend_from_slice: all or nothing
HVecTryExtend(h, bytes) ==
    LET a == HVecAlign(h) IN
    IF a.res # Ok THEN a
    ELSE IF Len(a.st.vec) + Len(bytes) > a.st.B
         THEN [st |-> a.st, res |-> SerializeBufferFull]
         ELSE [st |-> [a.st EXCEPT !.vec = a.st.vec \o bytes], res |-> Ok]

HVecFinalize(h) == h.vec

(***************************************************************************)
(* ser::NibbleSize.                                                        *)
(***************************************************************************)
SizeNew == [kind |-> "size", size_nibbles |-> 0]

SizeTryPushU8(z, b) ==
    [st |-> [z EXCEPT !.size_nibbles = z.size_nibbles + 2], res |-> Ok]

SizeTryPushNib(z, nib) ==
    [st |-> [z EXCEPT !.size_nibbles = z.size_nibbles + 1], res |-> Ok]

SizeTryExtend(z, b) ==
    [st |-> [z EXCEPT !.size_nibbles = z.size_nibbles + Len(b) * 2], res |-> Ok]

SizeFinalize(z) == z.size_nibbles

(***************************************************************************)
(* The ser::NibbleFlavor trait: dispatch on the backend.                   *)
(***************************************************************************)
FlavorTryPushNib(f, nib) ==
    CASE f.kind = "slice" -> SerSliceTryPushNib(f, nib)
      [] f.kind = "hvec" -> HVecTryPushNib(f, nib)
      [] f.kind = "size" -> SizeTryPushNib(f, nib)

FlavorTryPushU8(f, byte) ==
    CASE f.kind = "slice" -> SerSliceTryPushU8(f, byte)
      [] f.kind = "hvec" -> HVecTryPushU8(f, byte)
      [] f.kind = "size" -> SizeTryPushU8(f, byte)

FlavorTryExtend(f, bytes) ==
    CASE f.kind = "slice" -> SerSliceTryExtend(f, bytes)
      [] f.kind = "hvec" -> HVecTryExtend(f, bytes)
      [] f.kind = "size" -> SizeTryExtend(f, bytes)

\* the trait's default try_extend: try_for_each(try_push_u8)
RECURSIVE DefaultTryExtend(_, _)
DefaultTryExtend(f, bytes) ==
    IF bytes = <<>> THEN [st |-> f, res |-> Ok]
    ELSE LET p == FlavorTryPushU8(f, Head(bytes)) IN
         IF p.res # Ok THEN p ELSE DefaultTryExtend(p.st, Tail(bytes))

(***************************************************************************)
(* de::NibbleSlice.  mem holds the input (offsets 0..end-1) followed by    *)
(* the memory that lies after it; a read at offset >= end sets oob.        *)
(* overflow_checks is the build's setting: with it a usize subtraction     *)
(* that underflows panics, without it the result wraps.                    *)
(***************************************************************************)
UsizeMod == 2^16

Panic == "Panic"

DeSliceNew(sli, past, checks) ==
    [mem |-> sli \o past, end |-> Len(sli), cursor |-> 0,
     is_at_byte_boundary |-> TRUE, oob |-> FALSE, overflow_checks |-> checks]

DeTryTakeNib(s) ==
    IF s.is_at_byte_boundary
    THEN [st |-> [s EXCEPT !.is_at_byte_boundary = FALSE,
                           !.oob = s.oob \/ (s.cursor >= s.end)],
          res |-> Ok,
          val |-> Shr4(BitAnd(s.mem[s.cursor + 1], 240))]
    ELSE [st |-> [s EXCEPT !.is_at_byte_boundary = TRUE,
                           !.cursor = s.cursor + 1,
                           !.oob = s.oob \/ (s.cursor >= s.end)],
          res |-> Ok,
          val |-> BitAnd(s.mem[s.cursor + 1], 15)]

\* try_take_u8 whose misaligned branch takes the low half of the next byte
DeTryTakeU8LowHalf(s) ==
    IF s.cursor = s.end
    THEN [st |-> s, res |-> DeserializeUnexpectedEnd, val |-> 0]
    ELSE IF s.is_at_byte_boundary
         THEN [st |-> [s EXCEPT !.cursor = s.cursor + 1,
                                !.oob = s.oob \/ (s.cursor >= s.end)],
               res |-> Ok,
               val |-> s.mem[s.cursor + 1]]
         ELSE LET msn == s.mem[s.cursor + 1]
                  c == s.cursor + 1
                  lsn == s.mem[c + 1] IN
              [st |-> [s EXCEPT !.cursor = c,
                                !.oob = s.oob \/ (c >= s.end)],
               res |-> Ok,
               val |-> BitOr(Shl4(msn), BitAnd(lsn, 15))]

DeTryTakeU8(s) ==
    IF s.cursor = s.end
    THEN [st |-> s, res |-> DeserializeUnexpectedEnd, val |-> 0]
    ELSE IF s.is_at_byte_boundary
         THEN [st |-> [s EXCEPT !.cursor = s.cursor + 1,
                                !.oob = s.oob \/ (s.cursor >= s.end)],
               res |-> Ok,
               val |-> s.mem[s.cursor + 1]]
         ELSE LET msn == s.mem[s.cursor + 1]
                  c == s.cursor + 1
                  lsn == s.mem[c + 1] IN
              [st |-> [s EXCEPT !.cursor = c,
                                !.oob = s.oob \/ (c >= s.end)],
               res |-> Ok,
               val |-> BitOr(Shl4(msn), Shr4(lsn))]

\* try_take_n that does not discard the padding nibble
DeAlignKeeps(s) == [st |-> s, res |-> Ok, val |-> 0]

DeAlign(s) ==
    IF ~s.is_at_byte_boundary
    THEN DeTryTakeNib(s)
    ELSE [st |-> s, res |-> Ok, val |-> 0]

\* [ovf |-> the usize arithmetic under- or overflowed, val |-> the wrapped result]
DeNibblesLeft(s) ==
    LET diff == s.end - s.cursor
        bytes_remain == diff % UsizeMod
        twice == bytes_remain * 2
        left == IF s.is_at_byte_boundary THEN twice ELSE twice - 1 IN
    [ovf |-> diff < 0 \/ twice >= UsizeMod \/ left < 0,
     val |-> left % UsizeMod]

\* try_take_n that refuses a run ending exactly at the end of the input
DeTryTakeNStrict(s, bytes) ==
    LET a == DeAlign(s) IN
    IF a.res # Ok THEN [st |-> a.st, res |-> a.res, val |-> <<>>]
    ELSE LET nl == DeNibblesLeft(a.st) IN
         IF nl.ovf /\ a.st.overflow_checks
         THEN [st |-> a.st, res |-> Panic, val |-> <<>>]
         ELSE IF nl.val \div 2 <= bytes
              THEN [st |-> a.st, res |-> DeserializeUnexpectedEnd, val |-> <<>>]
              ELSE [st |-> [a.st EXCEPT !.cursor = a.st.cursor + bytes,
                                        !.oob = a.st.oob \/ (a.st.cursor + bytes > a.st.end)],
                    res |-> Ok,
                    val |-> SubSeq(a.st.mem, a.st.cursor + 1, a.st.cursor + bytes)]

DeTryTakeN(s, bytes) ==
    LET a == DeAlign(s) IN
    IF a.res # Ok THEN [st |-> a.st, res |-> a.res, val |-> <<>>]
    ELSE LET nl == DeNibblesLeft(a.st) IN
         IF nl.ovf /\ a.st.overflow_checks
         THEN [st |-> a.st, res |-> Panic, val |-> <<>>]
         ELSE IF nl.val \div 2 < bytes
              THEN [st |-> a.st, res |-> DeserializeUnexpectedEnd, val |-> <<>>]
              ELSE [st |-> [a.st EXCEPT !.cursor = a.st.cursor + bytes,
                                        !.oob = a.st.oob \/ (a.st.cursor + bytes > a.st.end)],
                    res |-> Ok,
                    val |-> SubSeq(a.st.mem, a.st.cursor + 1, a.st.cursor + bytes)]

DeFinalize(s) ==
    LET diff == s.end - s.cursor IN
    IF diff < 0 /\ s.overflow_checks
    THEN [res |-> Panic, val |-> <<>>]
    ELSE [res |-> Ok,
          val |-> IF diff < 0 THEN <<>> ELSE SubSeq(s.mem, s.cursor + 1, s.end)]

(***************************************************************************)
(* u32 values are bit vectors, most significant bit first, so that all 32  *)
(* bits fit in the model's integers.                                       *)
(***************************************************************************)
Zeros(k) == [i \in 1..k |-> 0]

RECURSIVE ToBits(_, _)
ToBits(n, w) == IF w = 0 THEN <<>> ELSE Append(ToBits(n \div 2, w - 1), n % 2)

RECURSIVE FromBits(_)
FromBits(bs) ==
    IF bs = <<>> THEN 0 ELSE 2 * FromBits(SubSeq(bs, 1, Len(bs) - 1)) + bs[Len(bs)]

U32(hi, lo) == ToBits(hi, 16) \o ToBits(lo, 16)
U32Shl(v, k) == SubSeq(v, k + 1, 32) \o Zeros(k)
U32Top(v, k) == FromBits(SubSeq(v, 1, k))
U32OrLow3(v, x) ==
    LET xb == ToBits(x, 3) IN
    [i \in 1..32 |-> IF i > 29 /\ xb[i - 29] = 1 THEN 1 ELSE v[i]]

(***************************************************************************)
(* Vlu32N::ser.                                                            *)
(***************************************************************************)
\* one turn of `for i in 0..=9`; r = [st, res, msb_found, val]
RECURSIVE SerLoop(_, _)
SerLoop(r, i) ==
    IF i > 9 THEN [st |-> r.st, res |-> Ok]
    ELSE LET emit == U32Top(r.val, 3) # 0 \/ r.msb_found
             nib == U32Top(r.val, 3)
             p1 == IF emit
                   THEN FlavorTryPushNib(r.st, IF i = 9 THEN nib ELSE BitOr(nib, 8))
                   ELSE [st |-> r.st, res |-> Ok]
             found == r.msb_found \/ emit IN
         IF p1.res # Ok THEN p1
         ELSE LET p2 == IF i = 9 /\ ~found
                        THEN FlavorTryPushNib(p1.st, 0)
                        ELSE p1 IN
              IF p2.res # Ok THEN p2
              ELSE SerLoop([st |-> p2.st, msb_found |-> found,
                            val |-> U32Shl(r.val, 3)], i + 1)

\* ser that shifts the 2-bit group out by 3
Vlu32NSerShift3(v, flavor) ==
    LET nib == U32Top(v, 2)
        p0 == IF nib # 0
              THEN FlavorTryPushNib(flavor, BitOr(nib, 8))
              ELSE [st |-> flavor, res |-> Ok] IN
    IF p0.res # Ok THEN p0
    ELSE SerLoop([st |-> p0.st, msb_found |-> nib # 0, val |-> U32Shl(v, 3)], 0)

Vlu32NSer(v, flavor) ==
    LET nib == U32Top(v, 2)
        p0 == IF nib # 0
              THEN FlavorTryPushNib(flavor, BitOr(nib, 8))
              ELSE [st |-> flavor, res |-> Ok] IN
    IF p0.res # Ok THEN p0
    ELSE SerLoop([st |-> p0.st, msb_found |-> nib # 0, val |-> U32Shl(v, 2)], 0)

(***************************************************************************)
(* Vlu32N::de.  The result also carries the nibbles try_take_nib returned, *)
(* in order, for the properties that speak of what de consumed.            *)
(***************************************************************************)
\* de that shifts after the terminal nibble too
RECURSIVE DeLoopShiftLast(_, _, _, _)
DeLoopShiftLast(s, num, i, got) ==
    IF i > 10 THEN [st |-> s, res |-> Ok, val |-> num, got |-> got]
    ELSE LET t == DeTryTakeNib(s)
             nib == t.val
             g == Append(got, nib) IN
         IF t.res # Ok
         THEN [st |-> t.st, res |-> t.res, val |-> num, got |-> got]
         ELSE IF i = 10 /\ BitAnd(nib, 8) # 0
              THEN [st |-> t.st, res |-> DeserializeBadVlu32N, val |-> num, got |-> g]
              ELSE LET n1 == U32Shl(U32OrLow3(num, BitAnd(nib, 7)), 3) IN
                   IF BitAnd(nib, 8) = 0
                   THEN [st |-> t.st, res |-> Ok, val |-> n1, got |-> g]
                   ELSE DeLoopShiftLast(t.st, n1, i + 1, g)

\* de without the test of the 11th nibble
RECURSIVE DeLoopNoCheck(_, _, _, _)
DeLoopNoCheck(s, num, i, got) ==
    IF i > 10 THEN [st |-> s, res |-> Ok, val |-> num, got |-> got]
    ELSE LET t == DeTryTakeNib(s)
             nib == t.val
             g == Append(got, nib) IN
         IF t.res # Ok
         THEN [st |-> t.st, res |-> t.res, val |-> num, got |-> got]
         ELSE LET n1 == U32OrLow3(num, BitAnd(nib, 7)) IN
              IF BitAnd(nib, 8) = 0
              THEN [st |-> t.st, res |-> Ok, val |-> n1, got |-> g]
              ELSE DeLoopNoCheck(t.st, U32Shl(n1, 3), i + 1, g)

RECURSIVE DeLoop(_, _, _, _)
DeLoop(s, num, i, got) ==
    IF i > 10 THEN [st |-> s, res |-> Ok, val |-> num, got |-> got]
    ELSE LET t == DeTryTakeNib(s)
             nib == t.val
             g == Append(got, nib) IN
         IF t.res # Ok
         THEN [st |-> t.st, res |-> t.res, val |-> num, got |-> got]
         ELSE IF i = 10 /\ BitAnd(nib, 8) # 0
              THEN [st |-> t.st, res |-> DeserializeBadVlu32N, val |-> num, got |-> g]
              ELSE LET n1 == U32OrLow3(num, BitAnd(nib, 7)) IN
                   IF BitAnd(nib, 8) = 0
                   THEN [st |-> t.st, res |-> Ok, val |-> n1, got |-> g]
                   ELSE DeLoop(t.st, U32Shl(n1, 3), i + 1, g)

Vlu32NDe(s) == DeLoop(s, Zeros(32), 0, <<>>)

(***************************************************************************)
(* State.                                                                  *)
(***************************************************************************)
VARIABLES
    buf0,    \* the caller's buffer as handed to ser::NibbleSlice::new
    sl,      \* the ser::NibbleSlice
    hv,      \* the NibbleHVec
    sz,      \* the NibbleSize
    ops,     \* the calls made on the sinks, in order
    sres,    \* result of the latest call on sl ("None": not called)
    hres,    \* result of the latest call on hv ("None": not called)
    slive,   \* every call on sl so far returned Ok
    hlive,   \* every call on hv so far returned Ok
    src,     \* the de::NibbleSlice
    pre,     \* src as it was before the latest take
    dcall,   \* the latest take: <<"nib">>, <<"u8">>, <<"n", count>>
    dres,    \* its result: [res, val]
    rpos,    \* number of takes made
    dhist,   \* the takes so far: [nibs: nibbles the successful ones consumed,
             \*                    ok: every one of them returned Ok]
    follow,  \* the takes mirror ops (a decode of what was encoded)
    pc,      \* "push", "take", "vser", "vopen", "vde", "vdone"
    val,     \* the u32 given to Vlu32N::ser (<<>>: none)
    lead,    \* nibbles pushed (taken) before the varint
    start,   \* src as it was when Vlu32N::de was called
    dec      \* the result of Vlu32N::de: [res, val, got]

vars == <<buf0, sl, hv, sz, ops, sres, hres, slive, hlive,
          src, pre, dcall, dres, rpos, dhist, follow, pc, val, lead, start, dec>>

sinkVars == <<buf0, sl, hv, sz, ops, sres, hres, slive, hlive>>
srcVars == <<src, pre, dcall, dres, rpos, dhist>>
vluVars == <<val, lead, start, dec>>

NoRes == [res |-> "None", val |-> 0]
NoDec == [res |-> "None", val |-> <<>>, got |-> <<>>]
NoSrc == DeSliceNew(<<>>, <<>>, TRUE)
NoHist == [nibs |-> 0, ok |-> TRUE, prev |-> TRUE]

Fill(n, b) == [i \in 1..n |-> b]

SinksNew(n, f, g) ==
    /\ buf0 = Fill(n, f)
    /\ sl = SerSliceNew(Fill(n, f), g)
    /\ hv = HVecNew(n)
    /\ sz = SizeNew
    /\ ops = <<>>
    /\ sres = "None"
    /\ hres = "None"
    /\ slive = TRUE
    /\ hlive = TRUE

SrcIdle ==
    /\ src = NoSrc
    /\ pre = NoSrc
    /\ dcall = <<>>
    /\ dres = NoRes
    /\ rpos = 0
    /\ dhist = NoHist

VluIdle ==
    /\ val = <<>>
    /\ lead = 0
    /\ start = NoSrc
    /\ dec = NoDec

(***************************************************************************)
(* The caller drives every sink that has not failed with the same call.    *)
(***************************************************************************)
Drive(op, rs, rh, rz) ==
    /\ pc = "push"
    /\ Len(ops) < MaxOps
    /\ slive \/ hlive
    /\ ops' = Append(ops, op)
    /\ sl' = IF slive THEN rs.st ELSE sl
    /\ sres' = IF slive THEN rs.res ELSE "None"
    /\ slive' = (slive /\ rs.res = Ok)
    /\ hv' = IF hlive THEN rh.st ELSE hv
    /\ hres' = IF hlive THEN rh.res ELSE "None"
    /\ hlive' = (hlive /\ rh.res = Ok)
    /\ sz' = rz.st
    /\ UNCHANGED <<buf0, srcVars, vluVars, follow, pc>>

PushNib ==
    \E n \in NibVals :
        Drive(<<"nib", n>>, FlavorTryPushNib(sl, n), FlavorTryPushNib(hv, n),
              FlavorTryPushNib(sz, n))

PushU8 ==
    \E b \in ByteVals :
        Drive(<<"u8", b>>, FlavorTryPushU8(sl, b), FlavorTryPushU8(hv, b),
              FlavorTryPushU8(sz, b))

Extend ==
    \E bs \in ExtVals :
        Drive(<<"ext", bs>>, FlavorTryExtend(sl, bs), FlavorTryExtend(hv, bs),
              FlavorTryExtend(sz, bs))

(***************************************************************************)
(* The takes.  A take is modelled only while every byte it reads lies in   *)
(* the modelled memory.                                                    *)
(***************************************************************************)
Scripted(kind) ==
    follow => (rpos < Len(ops) /\ ops[rpos + 1][1] = kind)

\* nibbles a successful take consumes after k nibbles were consumed: 1 for a
\* nibble, 2 for a byte, and for try_take_n 2 per byte and the padding nibble
TakeUnits(call, k) ==
    CASE call[1] = "nib" -> 1
      [] call[1] = "u8" -> 2
      [] call[1] = "n" -> (k % 2) + 2 * call[2]

Took(call, r) ==
    /\ pc = "take"
    /\ rpos < MaxOps
    /\ dres.res # Panic
    /\ pre' = src
    /\ src' = r.st
    /\ dcall' = call
    /\ dres' = [res |-> r.res, val |-> r.val]
    /\ rpos' = rpos + 1
    /\ dhist' = [nibs |-> IF r.res = Ok
                          THEN dhist.nibs + TakeUnits(call, dhist.nibs)
                          ELSE dhist.nibs,
                 ok |-> dhist.ok /\ r.res = Ok,
                 prev |-> dhist.ok]
    /\ UNCHANGED <<sinkVars, vluVars, follow, pc>>

TakeNib ==
    /\ Scripted("nib")
    /\ src.cursor < Len(src.mem)
    /\ Took(<<"nib">>, DeTryTakeNib(src))

TakeU8 ==
    /\ Scripted("u8")
    /\ src.cursor + 1 < Len(src.mem)
    /\ Took(<<"u8">>, DeTryTakeU8(src))

TakeN ==
    \E n \in 0..MaxTake :
        /\ Scripted("ext")
        /\ follow => n = Len(ops[rpos + 1][2])
        /\ src.cursor + 1 + n <= Len(src.mem)
        /\ Took(<<"n", n>>, DeTryTakeN(src, n))

\* from_nibbles(finalize(sink)): a source over the bytes the NibbleHVec resolved to
Decode ==
    /\ pc = "push"
    /\ hlive
    /\ \E g \in FillVals :
           src' = DeSliceNew(HVecFinalize(hv), Fill(PastLen, g), TRUE)
    /\ pc' = "take"
    /\ follow' = TRUE
    /\ UNCHANGED <<sinkVars, vluVars, pre, dcall, dres, rpos, dhist>>

(***************************************************************************)
(* Specifications of the sinks, of encode-then-decode, and of the source   *)
(* over arbitrary input.                                                   *)
(***************************************************************************)
InitSink ==
    /\ \E n \in 0..MaxCap, f \in FillVals, g \in FillVals : SinksNew(n, f, g)
    /\ SrcIdle
    /\ VluIdle
    /\ follow = FALSE
    /\ pc = "push"

NextSink == PushNib \/ PushU8 \/ Extend

SpecSink == InitSink /\ [][NextSink]_vars

LoopCap == MaxCap + 2

InitLoop ==
    /\ SinksNew(LoopCap, 0, 0)
    /\ SrcIdle
    /\ VluIdle
    /\ follow = FALSE
    /\ pc = "push"

NextLoop == PushNib \/ PushU8 \/ Extend \/ Decode \/ TakeNib \/ TakeU8 \/ TakeN

SpecLoop == InitLoop /\ [][NextLoop]_vars

RECURSIVE SeqsUpTo(_, _)
SeqsUpTo(S, n) ==
    IF n = 0 THEN {<<>>}
    ELSE LET shorter == SeqsUpTo(S, n - 1) IN
         shorter \cup {Append(q, x) : q \in shorter, x \in S}

InitSource ==
    /\ SinksNew(0, 0, 0)
    /\ \E data \in SeqsUpTo(ByteVals, MaxCap), g \in FillVals, checks \in BOOLEAN :
           src = DeSliceNew(data, Fill(PastLen, g), checks)
    /\ pre = NoSrc
    /\ dcall = <<>>
    /\ dres = NoRes
    /\ rpos = 0
    /\ dhist = NoHist
    /\ VluIdle
    /\ follow = FALSE
    /\ pc = "take"

NextSource == TakeNib \/ TakeU8 \/ TakeN

SpecSource == InitSource /\ [][NextSource]_vars

(***************************************************************************)
(* Vlu32N through a NibbleHVec and back through the slice source, and      *)
(* Vlu32N::de over arbitrary nibble streams.                               *)
(***************************************************************************)
MaxNibbles == 11

VluCap == (MaxNibbles + 1 + 1) \div 2

BitAt(k) == [i \in 1..32 |-> IF i = 32 - k THEN 1 ELSE 0]
LowOnes(k) == [i \in 1..32 |-> IF i > 32 - k THEN 1 ELSE 0]

TestVals ==
    {BitAt(k) : k \in 0..31} \cup {LowOnes(k) : k \in 0..32}
        \cup {U32(0, 8), U32(0, 42439), U32(52651, 13330), U32(4660, 22136)}

\* two nibbles per byte, high nibble first; an odd tail is padded with `pad`
RECURSIVE Pack(_, _)
Pack(nibs, pad) ==
    IF nibs = <<>> THEN <<>>
    ELSE IF Len(nibs) = 1 THEN <<16 * nibs[1] + pad>>
    ELSE <<16 * nibs[1] + nibs[2]>> \o Pack(SubSeq(nibs, 3, Len(nibs)), pad)

RawStreams(l) ==
    {Pack(Fill(l, 10) \o Fill(k, c) \o <<t>>, 15) :
        k \in 0..MaxCont, c \in {8, 15}, t \in {0, 7}}

\* every prefix of every stream: the truncated inputs too
Prefixes(bytes, l) ==
    {[data |-> SubSeq(bytes, 1, m), lead |-> l] : m \in 0..Len(bytes)}

RawInputs ==
    UNION {UNION {Prefixes(bytes, l) : bytes \in RawStreams(l)} : l \in {0, 1}}

\* the source after `n` nibbles have been taken from it
RECURSIVE Skip(_, _)
Skip(s, n) == IF n = 0 THEN s ELSE Skip(DeTryTakeNib(s).st, n - 1)

InitVlu ==
    /\ buf0 = <<>>
    /\ sl = SerSliceNew(<<>>, 0)
    /\ sz = SizeNew
    /\ ops = <<>>
    /\ sres = "None"
    /\ hres = "None"
    /\ slive = TRUE
    /\ hlive = TRUE
    /\ pre = NoSrc
    /\ dcall = <<>>
    /\ dres = NoRes
    /\ rpos = 0
    /\ dhist = NoHist
    /\ dec = NoDec
    /\ start = NoSrc
    /\ \/ /\ pc = "vser"
          /\ follow = TRUE
          /\ val \in TestVals
          /\ lead \in {0, 1}
          /\ hv = IF lead = 1
                  THEN HVecTryPushNib(HVecNew(VluCap), 10).st
                  ELSE HVecNew(VluCap)
          /\ src = NoSrc
       \/ /\ pc = "vde"
          /\ follow = FALSE
          /\ val = <<>>
          /\ hv = HVecNew(VluCap)
          /\ \E in \in RawInputs, g \in FillVals :
                /\ lead = in.lead
                /\ Len(in.data) * 2 >= in.lead
                /\ src = Skip(DeSliceNew(in.data, Fill(PastLen, g), TRUE), in.lead)

VluSer ==
    /\ pc = "vser"
    /\ LET r == Vlu32NSer(val, hv) IN
           /\ hv' = r.st
           /\ hres' = r.res
           /\ hlive' = (r.res = Ok)
    /\ sz' = Vlu32NSer(val, sz).st
    /\ pc' = "vopen"
    /\ UNCHANGED <<buf0, sl, ops, sres, slive, srcVars, vluVars, follow>>

VluOpen ==
    /\ pc = "vopen"
    /\ hlive
    /\ \E g \in FillVals :
           src' = Skip(DeSliceNew(HVecFinalize(hv), Fill(PastLen, g), TRUE), lead)
    /\ pc' = "vde"
    /\ UNCHANGED <<sinkVars, vluVars, pre, dcall, dres, rpos, dhist, follow>>

\* nibbles taken from a source so far
NibPos(s) == 2 * s.cursor + (IF s.is_at_byte_boundary THEN 0 ELSE 1)

VluDe ==
    /\ pc = "vde"
    /\ NibPos(src) + MaxNibbles <= 2 * Len(src.mem)
    /\ LET r == Vlu32NDe(src) IN
           /\ src' = r.st
           /\ dec' = [res |-> r.res, val |-> r.val, got |-> r.got]
    /\ start' = src
    /\ pc' = "vdone"
    /\ UNCHANGED <<sinkVars, pre, dcall, dres, rpos, dhist, follow, val, lead>>

NextVlu == VluSer \/ VluOpen \/ VluDe

SpecVlu == InitVlu /\ [][NextVlu]_vars

Spec == SpecSink

(***************************************************************************)
(* Notions the properties are stated in.                                   *)
(***************************************************************************)
NibsOnly == \A i \in 1..Len(ops) : ops[i][1] = "nib"
PlainOps == \A i \in 1..Len(ops) : ops[i][1] \in {"nib", "u8"}

\* nibbles asked for by a sequence of try_push_nib / try_push_u8 calls
RECURSIVE Units(_)
Units(calls) ==
    IF calls = <<>> THEN 0
    ELSE (IF Head(calls)[1] = "nib" THEN 1 ELSE 2) + Units(Tail(calls))

\* what differs between two slice sinks for their caller
SameSink(a, b) ==
    /\ SubSeq(a.mem, 1, a.end) = SubSeq(b.mem, 1, b.end)
    /\ a.cursor = b.cursor
    /\ a.is_at_byte_boundary = b.is_at_byte_boundary

\* unread nibbles of a source whose cursor is within its input
Remaining(s) == 2 * (s.end - s.cursor) - (IF s.is_at_byte_boundary THEN 0 ELSE 1)

(***************************************************************************)
(* C1.  Sink-to-source round trip: when every push of a sequence of        *)
(* try_push_nib / try_push_u8 / try_extend calls succeeded on the          *)
(* NibbleHVec, a source over the finalized bytes driven with the matching  *)
(* takes in the same order returns, without error, the nibble, byte or     *)
(* byte run that was pushed.                                               *)
(***************************************************************************)
RoundTrip ==
    (pc = "take" /\ follow /\ rpos > 0) =>
        /\ dres.res = Ok
        /\ dres.val = ops[rpos][2]
        /\ ~src.oob

RoundTripWitness ==
    /\ pc = "take"
    /\ follow
    /\ rpos = Len(ops)
    /\ rpos >= 4
    /\ ops[1][1] = "nib"
    /\ ops[2][1] = "u8"
    /\ ops[3][1] = "nib"
    /\ ops[4] = <<"ext", <<60, 165>> >>
    /\ dres.val = <<60, 165>>

(***************************************************************************)
(* C2.  Wire layout on the slice-backed sink: over a zero-filled buffer,   *)
(* after k successful try_push_nib calls n1..nk, byte i (i < ceil(k/2))    *)
(* holds n(2i+1) in its high 4 bits and n(2i+2) in its low 4 bits (0 when  *)
(* k is odd and i is the last byte).                                       *)
(***************************************************************************)
WireLayout ==
    (pc = "push" /\ slive /\ NibsOnly /\ \A j \in 1..Len(buf0) : buf0[j] = 0) =>
        \A i \in 0..((Len(ops) + 1) \div 2 - 1) :
            sl.mem[i + 1] = 16 * ops[2 * i + 1][2]
                            + (IF 2 * i + 2 <= Len(ops) THEN ops[2 * i + 2][2] ELSE 0)

(***************************************************************************)
(* C3.  Mid-byte byte write on the slice-backed sink: from any misaligned  *)
(* state with enough capacity, try_push_u8(b) leaves buffer, cursor and    *)
(* is_at_byte_boundary as try_push_nib(b >> 4) followed by                 *)
(* try_push_nib(b & 0x0F) does.                                            *)
(***************************************************************************)
MidByteAsTwoNibbles ==
    \A b \in ByteVals :
        (pc = "push" /\ slive /\ ~sl.is_at_byte_boundary
            /\ SerSliceTryPushU8(sl, b).res = Ok) =>
            LET one == SerSliceTryPushU8(sl, b)
                hi == SerSliceTryPushNib(sl, Shr4(b))
                two == SerSliceTryPushNib(hi.st, BitAnd(b, 15)) IN
            /\ hi.res = Ok
            /\ two.res = Ok
            /\ SameSink(one.st, two.st)

(***************************************************************************)
(* C4.  BufferFull exactness: on the slice-backed sink over N bytes and on *)
(* the NibbleHVec of capacity N, a try_push_nib / try_push_u8 call that    *)
(* follows only successful such calls returns Ok iff the nibbles pushed,   *)
(* that call included, number at most 2N, and SerializeBufferFull          *)
(* otherwise.                                                              *)
(***************************************************************************)
BufferFullExact ==
    (ops # <<>> /\ PlainOps) =>
        /\ sres # "None" =>
              /\ sres \in {Ok, SerializeBufferFull}
              /\ sres = Ok <=> Units(ops) <= 2 * sl.end
        /\ hres # "None" =>
              /\ hres \in {Ok, SerializeBufferFull}
              /\ hres = Ok <=> Units(ops) <= 2 * hv.B

BufferFullWitness ==
    /\ sl.end = 2
    /\ NibsOnly
    /\ Len(ops) = 5
    /\ sres = SerializeBufferFull
    /\ hres = SerializeBufferFull

(***************************************************************************)
(* C5.  try_take_nib on the slice source returns DeserializeUnexpectedEnd  *)
(* whenever no unread nibble remains (cursor = end at a byte boundary).    *)
(***************************************************************************)
TakeNibAtEndFails ==
    (dcall = <<"nib">> /\ pre.cursor = pre.end /\ pre.is_at_byte_boundary) =>
        dres.res = DeserializeUnexpectedEnd

(***************************************************************************)
(* C6.  try_take_u8 on the slice source returns DeserializeUnexpectedEnd   *)
(* whenever fewer than two unread nibbles remain, also when the source is  *)
(* misaligned on its last byte.  Stated for sources that have read within  *)
(* their input so far.                                                     *)
(***************************************************************************)
TakeU8ShortFails ==
    (dcall = <<"u8">> /\ ~pre.oob /\ Remaining(pre) < 2) =>
        /\ dres.res = DeserializeUnexpectedEnd
        /\ ~src.oob

(***************************************************************************)
(* C7.  try_take_n non-mutation on failure: when try_take_n returns        *)
(* DeserializeUnexpectedEnd, cursor and is_at_byte_boundary are as before  *)
(* the call.  Stated for sources that have read within their input so far. *)
(***************************************************************************)
TakeNFailureKeepsCursor ==
    (dcall # <<>> /\ dcall[1] = "n" /\ ~pre.oob
        /\ dres.res = DeserializeUnexpectedEnd) =>
        /\ src.cursor = pre.cursor
        /\ src.is_at_byte_boundary = pre.is_at_byte_boundary

(***************************************************************************)
(* Notions the Vlu32N properties are stated in.                            *)
(***************************************************************************)
\* the nibble at nibble position p (0-based) of a byte sequence
NibAt(mem, p) ==
    IF p % 2 = 0 THEN mem[p \div 2 + 1] \div 16 ELSE mem[p \div 2 + 1] % 16

\* the nibbles a NibbleHVec holds after its first `skip` ones
Emitted(h, skip) ==
    LET n == 2 * Len(h.vec) - (IF h.is_at_byte_boundary THEN 0 ELSE 1) IN
    [j \in 1..(n - skip) |-> NibAt(h.vec, skip + j - 1)]

\* number of bits of v up to and including its most significant 1
BitLen(v) ==
    IF \A i \in 1..32 : v[i] = 0 THEN 0
    ELSE 33 - (CHOOSE i \in 1..32 : v[i] = 1 /\ \A j \in 1..(i - 1) : v[j] = 0)

\* the g-th of the eleven 3-bit groups of v, most significant first
\* (the first is bits 31:30)
Group(v, g) == FromBits(SubSeq(<<0>> \o v, 3 * g - 2, 3 * g))

NibblesFor(v) ==
    IF BitLen(v) = 0 THEN 1 ELSE (BitLen(v) + 2) \div 3

VluShape ==
    (pc = "vopen" /\ follow) =>
        LET e == Emitted(hv, lead)
            n == Len(e) IN
        /\ hres = Ok
        /\ n = sz.size_nibbles
        /\ n = NibblesFor(val)
        /\ n <= MaxNibbles
        /\ \A j \in 1..n :
              /\ BitAnd(e[j], 7) = Group(val, MaxNibbles - n + j)
              /\ BitAnd(e[j], 8) = (IF j < n THEN 8 ELSE 0)
        /\ val = U32(0, 0) => e = <<0>>
        /\ val = U32(0, 7) => e = <<7>>
        /\ val = U32(0, 8) => e = <<9, 0>>
        /\ val = U32(65535, 65535) =>
              e = <<11, 15, 15, 15, 15, 15, 15, 15, 15, 15, 7>>

VluShapeWitness ==
    /\ pc = "vopen"
    /\ follow
    /\ lead = 1
    /\ val = U32(65535, 65535)
    /\ Len(Emitted(hv, lead)) = 11
    /\ sz.size_nibbles = 11

(***************************************************************************)
(* C10.  Malformed varint: de returns DeserializeBadVlu32N exactly when    *)
(* the next 11 nibbles all carry the continuation bit; in every outcome de *)
(* takes at most 11 nibbles, and it stops taking right after the first     *)
(* nibble whose continuation bit is clear.                                 *)
(***************************************************************************)
\* the j-th nibble that follows the position de was called at
Next11(j) == NibAt(start.mem, NibPos(start) + j - 1)

Clear == {j \in 1..MaxNibbles : Next11(j) < 8}

FirstClear == CHOOSE j \in Clear : \A k \in Clear : j <= k

PushUnits(call, k) ==
    CASE call[1] = "nib" -> 1
      [] call[1] = "u8" -> 2
      [] call[1] = "ext" -> (k % 2) + 2 * Len(call[2])

\* nibbles emitted by a sequence of successful pushes that follows k nibbles
RECURSIVE EmittedAfter(_, _)
EmittedAfter(calls, k) ==
    IF calls = <<>> THEN k
    ELSE EmittedAfter(Tail(calls), k + PushUnits(Head(calls), k))

EmittedNibs == EmittedAfter(ops, 0)

(***************************************************************************)
(* C11.  Sink boundary parity: on the slice-backed and on the bounded      *)
(* sink, after any sequence of successful try_push_nib, try_push_u8 and    *)
(* try_extend calls, is_at_byte_boundary is true iff the number of nibbles *)
(* emitted is even (1 per nibble, 2 per byte, and for try_extend 2 per     *)
(* byte plus 1 for the padding nibble when it is called misaligned).       *)
(***************************************************************************)
SinkParity ==
    pc = "push" =>
        /\ slive => (sl.is_at_byte_boundary <=> EmittedNibs % 2 = 0)
        /\ hlive => (hv.is_at_byte_boundary <=> EmittedNibs % 2 = 0)

SinkParityWitness ==
    /\ pc = "push"
    /\ slive
    /\ hlive
    /\ Len(ops) = 3
    /\ ops[1][1] = "nib"
    /\ ops[2] = <<"ext", <<>> >>
    /\ ops[3][1] = "nib"
    /\ EmittedNibs = 3
    /\ ~sl.is_at_byte_boundary
    /\ ~hv.is_at_byte_boundary

(***************************************************************************)
(* C12.  Source boundary parity: after any sequence of successful          *)
(* try_take_nib, try_take_u8 and try_take_n calls on a slice source,       *)
(* is_at_byte_boundary is true iff the number of nibbles consumed is even  *)
(* (1 per nibble, 2 per byte, and for try_take_n 2 per byte plus 1 for the *)
(* padding nibble when it is called misaligned).                           *)
(***************************************************************************)
SourceParity ==
    (pc = "take" /\ dhist.ok) =>
        (src.is_at_byte_boundary <=> dhist.nibs % 2 = 0)

SourceParityWitness ==
    /\ pc = "take"
    /\ dhist.ok
    /\ dcall = <<"n", 1>>
    /\ ~pre.is_at_byte_boundary
    /\ dhist.nibs = 4
    /\ src.is_at_byte_boundary
    /\ ~src.oob

(***************************************************************************)
(* C13.  try_extend and the naive loop.  As stated: on the slice-backed    *)
(* and on the bounded sink, from every reachable state, aligned or         *)
(* misaligned, with enough capacity, try_extend(bytes) leaves the same     *)
(* output bytes, cursor and is_at_byte_boundary as try_push_u8 on each     *)
(* byte in order (the trait's default try_extend).                         *)
(***************************************************************************)
ExtendIsNaiveLoop ==
    pc = "push" =>
        \A bytes \in ExtVals :
            /\ (slive /\ SerSliceTryExtend(sl, bytes).res = Ok
                      /\ DefaultTryExtend(sl, bytes).res = Ok)
                   => SameSink(SerSliceTryExtend(sl, bytes).st,
                               DefaultTryExtend(sl, bytes).st)
            /\ (hlive /\ HVecTryExtend(hv, bytes).res = Ok
                      /\ DefaultTryExtend(hv, bytes).res = Ok)
                   => HVecTryExtend(hv, bytes).st = DefaultTryExtend(hv, bytes).st

\* try_extend(bytes) that succeeds on f is the naive loop, run from f when f
\* is aligned and from f after try_push_nib(0) when f is misaligned
PadThenLoop(f, ext, bytes) ==
    ext.res = Ok =>
        IF f.is_at_byte_boundary
        THEN ext = DefaultTryExtend(f, bytes)
        ELSE /\ FlavorTryPushNib(f, 0).res = Ok
             /\ ext = DefaultTryExtend(FlavorTryPushNib(f, 0).st, bytes)

(***************************************************************************)
(* C13, amended.  On the slice-backed and on the bounded sink, a           *)
(* try_extend(bytes) that succeeds from an aligned state leaves the same   *)
(* output bytes, cursor and is_at_byte_boundary as try_push_u8 on each     *)
(* byte in order; from a misaligned state it leaves what try_push_nib(0)   *)
(* followed by that loop leaves, so its output differs from the naive      *)
(* loop's by the zero padding nibble.                                      *)
(***************************************************************************)
ExtendIsPadThenLoop ==
    pc = "push" =>
        \A bytes \in ExtVals :
            /\ slive => PadThenLoop(sl, SerSliceTryExtend(sl, bytes), bytes)
            /\ hlive => PadThenLoop(hv, HVecTryExtend(hv, bytes), bytes)

ExtendIsPadThenLoopWitness ==
    /\ pc = "push"
    /\ slive
    /\ hlive
    /\ ~sl.is_at_byte_boundary
    /\ ~hv.is_at_byte_boundary
    /\ SerSliceTryExtend(sl, <<165>>).res = Ok
    /\ HVecTryExtend(hv, <<165>>).res = Ok
    /\ HVecTryExtend(hv, <<165>>).st.vec = <<80, 165>>
    /\ DefaultTryExtend(hv, <<165>>).st.vec = <<90, 80>>

(***************************************************************************)
(* C14.  Size-accumulator equivalence: when every call of a sequence of    *)
(* try_push_nib / try_push_u8 / try_extend calls succeeded on the          *)
(* slice-backed sink, NibbleSize driven with the same calls finalizes to a *)
(* count n with ceil(n/2) the length of the slice sink's output.  Stated   *)
(* for the sequences that end on a byte boundary, where n is twice the     *)
(* length.                                                                 *)
(***************************************************************************)
SizeMatchesSlice ==
    (pc = "push" /\ slive /\ sl.is_at_byte_boundary) =>
        /\ Len(SerSliceFinalize(sl)) = (SizeFinalize(sz) + 1) \div 2
        /\ SizeFinalize(sz) = 2 * Len(SerSliceFinalize(sl))

(***************************************************************************)
(* C15.  Source cursor invariant: in every state a slice source reaches by *)
(* try_take_nib / try_take_u8 / try_take_n calls, successful or failing,   *)
(* cursor <= end, nibbles_left is computed without underflow, and while    *)
(* the takes succeeded it is 2*L minus the number of nibbles consumed.     *)
(***************************************************************************)
SourceCursorInBounds ==
    (pc = "take" /\ dres.res # Panic) =>
        /\ src.cursor <= src.end
        /\ ~DeNibblesLeft(src).ovf
        /\ DeFinalize(src).res = Ok
        /\ dhist.ok => DeNibblesLeft(src).val = 2 * src.end - dhist.nibs

(***************************************************************************)
(* C16.  Source finalize returns only never-consumed bytes: after          *)
(* successful takes that consumed k nibbles of an L-byte input and read    *)
(* within it, finalize returns the last L - ceil(k/2) bytes of the input,  *)
(* the bytes from which no nibble was taken.                               *)
(***************************************************************************)
FinalizeUntouchedBytes ==
    (pc = "take" /\ dhist.ok /\ ~src.oob /\ dhist.nibs <= 2 * src.end) =>
        /\ DeFinalize(src).res = Ok
        /\ DeFinalize(src).val =
               SubSeq(src.mem, (dhist.nibs + 1) \div 2 + 1, src.end)

(***************************************************************************)
(* C17.  Backend equivalence: for every sequence of try_push_nib /         *)
(* try_push_u8 / try_extend calls that all succeed on both, the            *)
(* slice-backed sink over a zero-filled N-byte buffer and the NibbleHVec   *)
(* of capacity N finalize to the same bytes.                               *)
(***************************************************************************)
BackendsAgree ==
    (pc = "push" /\ slive /\ hlive /\ buf0 = Fill(Len(buf0), 0)) =>
        SerSliceFinalize(sl) = HVecFinalize(hv)

(***************************************************************************)
(* C18.  Slice sink finalize returns every written byte: after successful  *)
(* pushes that emitted k nibbles, finalize on the slice-backed sink        *)
(* returns ceil(k/2) bytes, the half-written last byte included.           *)
(***************************************************************************)
SliceFinalizeAllWritten ==
    (pc = "push" /\ slive) =>
        Len(SerSliceFinalize(sl)) = (EmittedNibs + 1) \div 2

(***************************************************************************)
(* C19.  try_take_n(count), called on a slice source that successful takes *)
(* left within its input, discards one padding nibble if misaligned and    *)
(* then succeeds iff at least count whole bytes remain between cursor and  *)
(* end, failing with DeserializeUnexpectedEnd otherwise; on success it     *)
(* returns those count input bytes in order, advances cursor by count and  *)
(* leaves is_at_byte_boundary true.                                        *)
(***************************************************************************)
TakeNContract ==
    (pc = "take" /\ Len(dcall) = 2 /\ dcall[1] = "n" /\ dhist.prev /\ ~pre.oob) =>
        LET count == dcall[2]
            c == pre.cursor + (IF pre.is_at_byte_boundary THEN 0 ELSE 1) IN
        /\ c <= pre.end
        /\ dres.res = IF pre.end - c >= count THEN Ok ELSE DeserializeUnexpectedEnd
        /\ dres.res = Ok =>
               /\ dres.val = SubSeq(pre.mem, c + 1, c + count)
               /\ Len(dres.val) = count
               /\ src.cursor = c + count
               /\ src.is_at_byte_boundary
               /\ ~src.oob

TakeNContractWitness ==
    /\ pc = "take"
    /\ dcall = <<"n", 1>>
    /\ dhist.prev
    /\ ~pre.oob
    /\ ~pre.is_at_byte_boundary
    /\ pre.cursor = 0
    /\ pre.end = 2
    /\ dres = [res |-> Ok, val |-> <<165>>]
    /\ src.cursor = 2

(***************************************************************************)
(* C20.  Slice sink memory safety: in any sequence of try_push_nib /       *)
(* try_push_u8 / try_extend calls on a slice-backed sink over an N-byte    *)
(* buffer, successful or failing, every byte the sink reads or writes has  *)
(* an index in [0, N).                                                     *)
(***************************************************************************)
SliceSinkInBounds == pc = "push" => ~sl.oob

(***************************************************************************)
(* A second slice-backed sink driven with the calls of `ops`.              *)
(***************************************************************************)
Call(op, f) ==
    CASE op[1] = "nib" -> FlavorTryPushNib(f, op[2])
      [] op[1] = "u8" -> FlavorTryPushU8(f, op[2])
      [] op[1] = "ext" -> FlavorTryExtend(f, op[2])

RECURSIVE Replay(_, _)
Replay(calls, f) ==
    IF calls = <<>> THEN f ELSE Replay(Tail(calls), Call(Head(calls), f).st)

(***************************************************************************)
(* C21.  Slice sink output is independent of prior buffer contents: for    *)
(* two slice-backed sinks over buffers of the same length and different    *)
(* initial contents, driven by the same sequence of successful             *)
(* try_push_nib / try_push_u8 / try_extend calls, every pushed nibble      *)
(* position reads back the same from both buffers.                         *)
(***************************************************************************)
SliceOutputIndependent ==
    (pc = "push" /\ slive) =>
        \A f \in FillVals :
            LET other == Replay(ops, SerSliceNew(Fill(Len(buf0), f), f)) IN
            \A p \in 0..(EmittedNibs - 1) :
                p < 2 * sl.end => NibAt(sl.mem, p) = NibAt(other.mem, p)

\* the low 3 bits of each nibble, concatenated, most significant first
RECURSIVE DataBits(_)
DataBits(nibs) ==
    IF nibs = <<>> THEN <<>>
    ELSE ToBits(BitAnd(Head(nibs), 7), 3) \o DataBits(Tail(nibs))

(***************************************************************************)
(* C22.  Vlu32N::de loses no bits: whenever de returns Ok, the returned    *)
(* u32 is the number whose binary digits are the low 3 bits of each        *)
(* consumed nibble, most significant first; none of those bits lies above  *)
(* bit 31 of the accumulator.  Stated for the calls that read within the   *)
(* input.                                                                  *)
(***************************************************************************)
DeLosesNoBits ==
    (pc = "vdone" /\ dec.res = Ok /\ ~src.oob) =>
        LET w == Zeros(32) \o DataBits(dec.got)
            n == Len(w) IN
        /\ dec.val = SubSeq(w, n - 31, n)
        /\ \A i \in 1..(n - 32) : w[i] = 0

====
